---------------------------- MODULE Spec2Model ----------------------------
(***************************************************************************)
(* Model of the Invoice-AI repository:                                     *)
(*   - push_to_github.py     ("Strategy A": tree / commit / ref)           *)
(*   - push_to_github_v2.py  ("Strategy B": one create_file per file)      *)
(*   - vision.py             (extract_invoice_data and the analyze loop)   *)
(*                                                                         *)
(* Python str values are sequences of one-character strings, bytes values  *)
(* are sequences of integers 0..255, decoded text is a sequence of code    *)
(* points.  The GitHub API and the Gemini API are the environment: every   *)
(* call has the outcomes the code distinguishes (a return value, a         *)
(* GithubException, any other exception), chosen nondeterministically.     *)
(***************************************************************************)
EXTENDS Integers, Sequences, FiniteSets, TLC

VARIABLES
    \* ---- the working directory (SpecCollect) ----
    sep,          \* os.sep of the platform: "/" or "\\"
    gitignore,    \* ./.gitignore: [exists, lines]
    tree,         \* the other regular files: [dir, name] -> [bytes, readable]
    cpc,          \* "start" | "done"
    files,        \* collect_files' result: github_path -> bytes
    \* ---- a run of one push script (SpecPush) ----
    script,       \* "A" (push_to_github.py) | "B" (push_to_github_v2.py)
    pc,           \* position in main()
    exitStatus,   \* None while running, then the process' exit status
    output,       \* the lines printed that the claims are about
    writeCalls,   \* remote write endpoints called so far, in order
    failed,       \* remote calls of Strategy A that raised, in order
    branchTip,    \* remote: "main"/"master" -> commit id or None
    branchTip0,   \* the remote's branches when the run started
    main_branch,  \* Strategy A: the Branch get_branch returned: [name, commit]
    base_tree,    \* Strategy A: the tree of the resolved tip, or None
    tree_sha,     \* Strategy A: the created tree, or None
    commits,      \* Strategy A: the commits this run created
    remoteFiles,  \* remote: path -> content of the files on branch main
    remoteAtRun,  \* Strategy B: remoteFiles when the current run started
    run,          \* Strategy B: 1 for the first run, 2 for the re-run
    pos,          \* Strategy B: files of sorted(files.items()) already handled
    attempts,     \* Strategy B: per file handled: request, answer, report
    firstRun,     \* Strategy B: the kinds of report run 1 printed
    \* ---- the analyze loop of vision.py (SpecVision) ----
    uploaded_files, \* the uploaded files' names
    idx,            \* files of the loop already handled
    all_data        \* the list the loop appends to

varsC == <<sep, gitignore, tree, cpc>>
varsP == <<script, pc, exitStatus, output, writeCalls, failed, branchTip,
           branchTip0, main_branch, base_tree, tree_sha, commits, remoteFiles,
           remoteAtRun, run, pos, attempts, firstRun>>
varsV == <<uploaded_files, idx, all_data>>
vars == <<sep, gitignore, tree, cpc, files, script, pc, exitStatus, output,
          writeCalls, failed, branchTip, branchTip0, main_branch, base_tree,
          tree_sha, commits, remoteFiles, remoteAtRun, run, pos, attempts,
          firstRun, uploaded_files, idx, all_data>>

None == "None"
NoBranch == [name |-> None, commit |-> None]

(***************************************************************************)
(* Bounds of the model.                                                    *)
(***************************************************************************)
MaxFiles == 2        \* regular files in the tree besides .gitignore
MaxUploads == 2      \* files uploaded to the analyze loop
MaxRespLen == 4      \* lexical pieces of a model response

(***************************************************************************)
(* str helpers                                                             *)
(***************************************************************************)
EmptyMap == [k \in {} |-> {}]

\* The code point of each character the model's strings use.
CharCode(c) ==
    CASE c = "\n" -> 10 [] c = " " -> 32 [] c = "#" -> 35 [] c = "." -> 46
      [] c = "/" -> 47  [] c = "\\" -> 92 [] c = "_" -> 95 [] c = "a" -> 97
      [] c = "b" -> 98  [] c = "c" -> 99  [] c = "d" -> 100 [] c = "e" -> 101
      [] c = "g" -> 103 [] c = "h" -> 104 [] c = "i" -> 105 [] c = "n" -> 110
      [] c = "o" -> 111 [] c = "p" -> 112 [] c = "r" -> 114 [] c = "t" -> 116
      [] c = "v" -> 118 [] c = "y" -> 121

\* pattern in s
IsSubstring(pattern, s) ==
    \E i \in 0..(Len(s) - Len(pattern)) :
        SubSeq(s, i + 1, i + Len(pattern)) = pattern

\* s.startswith(prefix)
StartsWith(s, prefix) ==
    Len(s) >= Len(prefix) /\ SubSeq(s, 1, Len(prefix)) = prefix

\* s.replace(old, new) for one-character old and new
Replace(s, old, new) ==
    [i \in 1..Len(s) |-> IF s[i] = old THEN new ELSE s[i]]

\* s.lstrip(chars)
RECURSIVE LStrip(_, _)
LStrip(s, chars) ==
    IF s # <<>> /\ Head(s) \in chars THEN LStrip(Tail(s), chars) ELSE s

\* s.rstrip(chars)
RECURSIVE RStrip(_, _)
RStrip(s, chars) ==
    IF s # <<>> /\ s[Len(s)] \in chars
    THEN RStrip(SubSeq(s, 1, Len(s) - 1), chars)
    ELSE s

\* s.strip(): whitespace off both ends
Strip(s) == RStrip(LStrip(s, {" ", "\n"}), {" ", "\n"})

\* sep.join(parts)
RECURSIVE Join(_, _)
Join(parts, s) ==
    IF parts = <<>> THEN <<>>
    ELSE IF Len(parts) = 1 THEN parts[1]
    ELSE parts[1] \o <<s>> \o Join(Tail(parts), s)

\* s < t for Python str: by code point, a proper prefix first
RECURSIVE StrLess(_, _)
StrLess(s, t) ==
    IF t = <<>> THEN FALSE
    ELSE IF s = <<>> THEN TRUE
    ELSE IF Head(s) = Head(t) THEN StrLess(Tail(s), Tail(t))
    ELSE CharCode(Head(s)) < CharCode(Head(t))

\* text.encode(): the model's characters are ASCII
Encode(s) == [i \in 1..Len(s) |-> CharCode(s[i])]

(***************************************************************************)
(* The working directory                                                   *)
(***************************************************************************)
GITIGNORE == <<".", "g", "i", "t", "i", "g", "n", "o", "r", "e">>
VENV == <<"v", "e", "n", "v">>
PYCACHE == <<"_", "_", "p", "y", "c", "a", "c", "h", "e", "_", "_">>

Seps == {"/", "\\"}

\* Candidate regular files: root files (two of them hidden), a file in a
\* plain directory, and files under each kind of excluded directory.
Universe ==
    { [dir |-> <<>>, name |-> <<"a">>],
      [dir |-> <<>>, name |-> <<".", "a">>],
      [dir |-> <<>>, name |-> <<".", "a", "b">>],
      [dir |-> << <<"d">> >>, name |-> <<"a">>],
      [dir |-> << <<".", "g">> >>, name |-> <<"a">>],
      [dir |-> << VENV >>, name |-> <<"a">>],
      [dir |-> << PYCACHE >>, name |-> <<"a">>] }

\* File contents: empty, ASCII, a two-byte UTF-8 character, and two byte
\* strings that are not UTF-8 (a stray 0xFF, a lead byte with no continuation).
Contents == { <<>>, <<65>>, <<195, 169>>, <<255>>, <<195, 65>> }

\* Lines a .gitignore may hold (read without the line terminator).
IgnoreLines ==
    { <<"a">>, <<".", "a">>, <<"d", "/", "a">>, <<"#", "c">>, <<" ", "a", "b", " ">>,
      <<" ">>, <<"g", "i", "t">> }

NoGitignore == [exists |-> FALSE, lines |-> <<>>]

Gitignores ==
    {NoGitignore}
      \cup { [exists |-> TRUE, lines |-> ls] :
               ls \in {<<>>} \cup { <<l>> : l \in IgnoreLines }
                      \cup { <<l1, l2>> : l1 \in {<<".", "a">>, <<"#", "c">>},
                                          l2 \in {<<"d", "/", "a">>, <<"g", "i", "t">>} } }

\* A file that open() can read has its bytes; one it cannot read has none.
FileStates ==
    { [bytes |-> c, readable |-> TRUE] : c \in Contents }
      \cup { [bytes |-> <<>>, readable |-> FALSE] }

Trees ==
    UNION { [S -> FileStates] :
              S \in { T \in SUBSET Universe : Cardinality(T) <= MaxFiles } }

\* The bytes of ./.gitignore: its lines, each ended by a newline.
RECURSIVE GitignoreBytes(_)
GitignoreBytes(lines) ==
    IF lines = <<>> THEN <<>>
    ELSE Encode(Head(lines)) \o <<10>> \o GitignoreBytes(Tail(lines))

\* Every regular file of the directory, .gitignore included when it exists.
AllFiles(t, gi) ==
    DOMAIN t \cup (IF gi.exists THEN {[dir |-> <<>>, name |-> GITIGNORE]} ELSE {})

FileState(t, gi, f) ==
    IF f \in DOMAIN t THEN t[f]
    ELSE [bytes |-> GitignoreBytes(gi.lines), readable |-> TRUE]

(***************************************************************************)
(* read_gitignore, should_ignore, collect_files (the same in both scripts) *)
(***************************************************************************)
\* read_gitignore(): the stripped lines that are neither empty nor comments.
ReadGitignore(gi) ==
    IF ~gi.exists THEN {}
    ELSE { Strip(gi.lines[i]) : i \in { j \in 1..Len(gi.lines) :
                 /\ Strip(gi.lines[j]) # <<>>
                 /\ ~StartsWith(Strip(gi.lines[j]), <<"#">>) } }

\* str(Path(root) / filename): the components joined by os.sep; pathlib drops
\* the leading "." of os.walk's root.
PathStr(f, s) == Join(f.dir \o <<f.name>>, s)

\* should_ignore(path, ignore_patterns)
ShouldIgnore(f, s, ignore_patterns) ==
    \E pattern \in ignore_patterns :
        IsSubstring(pattern, PathStr(f, s)) \/ f.name = pattern

\* github_path = str(filepath).replace("\\", "/").lstrip("./")
GithubPath(f, s) == LStrip(Replace(PathStr(f, s), "\\", "/"), {".", "/"})

\* dirs[:] = [d for d in dirs if not d.startswith(".") and d not in [...]]
ExcludedDir(d) == StartsWith(d, <<".">>) \/ d \in {VENV, PYCACHE}

\* os.walk reaches a file when no directory above it was pruned.
Walked(f) == \A i \in 1..Len(f.dir) : ~ExcludedDir(f.dir[i])

\* The sequences that hold each element of S once.
RECURSIVE Orderings(_)
Orderings(S) ==
    IF S = {} THEN {<<>>}
    ELSE UNION { { <<x>> \o p : p \in Orderings(S \ {x}) } : x \in S }

\* The orders in which os.walk(".") can yield the walked files: top-down, a
\* directory's own files (in the order the OS lists them) before those of
\* its subdirectories, each directory's files together.
WalkOrders(fs) ==
    { o \in Orderings(fs) :
        /\ \A i, j \in 1..Len(o) :
             i < j => Len(o[i].dir) <= Len(o[j].dir)
        /\ \A i, j, k \in 1..Len(o) :
             (i < j /\ j < k /\ o[i].dir = o[k].dir) => o[j].dir = o[i].dir }

\* files[github_path] = content
Store(acc, key, content) ==
    [k \in DOMAIN acc \cup {key} |-> IF k = key THEN content ELSE acc[k]]

\* The body of collect_files' loops over one walk order.
RECURSIVE CollectLoop(_, _, _, _, _, _)
CollectLoop(order, i, t, gi, s, acc) ==
    IF i > Len(order) THEN acc
    ELSE LET f == order[i]
             st == FileState(t, gi, f)
         IN  IF ShouldIgnore(f, s, ReadGitignore(gi))
             THEN CollectLoop(order, i + 1, t, gi, s, acc)
             ELSE IF ~st.readable
             THEN CollectLoop(order, i + 1, t, gi, s, acc)
             ELSE CollectLoop(order, i + 1, t, gi, s,
                              Store(acc, GithubPath(f, s), st.bytes))

\* collect_files() over the directory (t, gi) on a platform with separator s
CollectFiles(t, gi, s, order) == CollectLoop(order, 1, t, gi, s, EmptyMap)

WalkedFiles(t, gi) == { f \in AllFiles(t, gi) : Walked(f) }

(***************************************************************************)
(* SpecCollect: collect_files() over every directory of the bounds         *)
(***************************************************************************)
\* The values the variables of the other programs keep while one runs.
IdleCollect ==
    /\ sep = "/" /\ gitignore = NoGitignore /\ tree = EmptyMap /\ cpc = "idle"

IdlePush ==
    /\ script = None /\ pc = "idle" /\ exitStatus = None /\ output = <<>>
    /\ writeCalls = <<>> /\ failed = <<>>
    /\ branchTip = EmptyMap /\ branchTip0 = EmptyMap
    /\ main_branch = NoBranch /\ base_tree = None /\ tree_sha = None /\ commits = <<>>
    /\ remoteFiles = EmptyMap /\ remoteAtRun = EmptyMap
    /\ run = 0 /\ pos = 0 /\ attempts = <<>> /\ firstRun = {}

IdleVision ==
    /\ uploaded_files = <<>> /\ idx = 0 /\ all_data = <<>>

InitCollect ==
    /\ sep \in Seps
    /\ gitignore \in Gitignores
    /\ tree \in Trees
    /\ cpc = "start"
    /\ files = EmptyMap
    /\ IdlePush
    /\ IdleVision

\* files = collect_files()
Collect ==
    /\ cpc = "start"
    /\ \E order \in WalkOrders(WalkedFiles(tree, gitignore)) :
           files' = CollectFiles(tree, gitignore, sep, order)
    /\ cpc' = "done"
    /\ UNCHANGED <<sep, gitignore, tree>>
    /\ UNCHANGED varsP
    /\ UNCHANGED varsV

NextCollect == Collect

SpecCollect == InitCollect /\ [][NextCollect]_vars

(***************************************************************************)
(* Claims about collect_files                                              *)
(***************************************************************************)
\* A file's root-relative path with "/" between its components.
RelPath(f) == Join(f.dir \o <<f.name>>, "/")

\* The files collect_files is to return: reached by the walk, readable, and
\* not ignored by should_ignore.
Eligible ==
    { f \in WalkedFiles(tree, gitignore) :
        /\ FileState(tree, gitignore, f).readable
        /\ ~ShouldIgnore(f, sep, ReadGitignore(gitignore)) }

\* C1: every regular file that matches no ignore rule and lies under no
\* excluded directory is in the collected mapping exactly once, under its
\* root-relative "/"-separated path (so a hidden file's key keeps its "."),
\* and the mapping holds nothing else.  Stated for the files open() can read.
C1_CollectedUnderRelPath ==
    cpc = "done" =>
        /\ \A f \in Eligible :
              /\ RelPath(f) \in DOMAIN files
              /\ files[RelPath(f)] = FileState(tree, gitignore, f).bytes
        /\ \A k \in DOMAIN files : \E f \in Eligible : k = RelPath(f)

\* C2: a walked, readable file is missing from the mapping exactly when some
\* rule is a substring of its key (its github_path) or equals its name.
C2_IgnoredIffRuleMatchesKey ==
    cpc = "done" =>
        \A f \in WalkedFiles(tree, gitignore) :
            FileState(tree, gitignore, f).readable =>
                ( (GithubPath(f, sep) \notin DOMAIN files)
                  <=> \E rule \in ReadGitignore(gitignore) :
                         \/ IsSubstring(rule, GithubPath(f, sep))
                         \/ rule = f.name )
(***************************************************************************)
(* bytes helpers: UTF-8 decoding and base64                                *)
(***************************************************************************)
IsCont(b) == b >= 128 /\ b <= 191

\* The length of the well-formed UTF-8 sequence at the head of b; 0 if none.
Utf8SeqLen(b) ==
    IF b = <<>> THEN 0
    ELSE IF b[1] <= 127 THEN 1
    ELSE IF b[1] >= 194 /\ b[1] <= 223
         THEN (IF Len(b) >= 2 /\ IsCont(b[2]) THEN 2 ELSE 0)
    ELSE IF b[1] >= 224 /\ b[1] <= 239
         THEN (IF /\ Len(b) >= 3 /\ IsCont(b[2]) /\ IsCont(b[3])
                  /\ (b[1] = 224 => b[2] >= 160)
                  /\ (b[1] = 237 => b[2] <= 159)
               THEN 3 ELSE 0)
    ELSE IF b[1] >= 240 /\ b[1] <= 244
         THEN (IF /\ Len(b) >= 4 /\ IsCont(b[2]) /\ IsCont(b[3]) /\ IsCont(b[4])
                  /\ (b[1] = 240 => b[2] >= 144)
                  /\ (b[1] = 244 => b[2] <= 143)
               THEN 4 ELSE 0)
    ELSE 0

\* The code point of the well-formed n-byte sequence at the head of b.
CodePoint(b, n) ==
    IF n = 1 THEN b[1]
    ELSE IF n = 2 THEN (b[1] - 192) * 64 + (b[2] - 128)
    ELSE IF n = 3 THEN (b[1] - 224) * 4096 + (b[2] - 128) * 64 + (b[3] - 128)
    ELSE (b[1] - 240) * 262144 + (b[2] - 128) * 4096 + (b[3] - 128) * 64
           + (b[4] - 128)

\* Whether bytes.decode("utf-8") returns (TRUE) or raises UnicodeDecodeError.
RECURSIVE ValidUtf8(_)
ValidUtf8(b) ==
    \/ b = <<>>
    \/ /\ Utf8SeqLen(b) > 0
       /\ ValidUtf8(SubSeq(b, Utf8SeqLen(b) + 1, Len(b)))

\* bytes.decode("utf-8") of well-formed bytes: the code points.
RECURSIVE Utf8Decode(_)
Utf8Decode(b) ==
    IF b = <<>> THEN <<>>
    ELSE <<CodePoint(b, Utf8SeqLen(b))>>
           \o Utf8Decode(SubSeq(b, Utf8SeqLen(b) + 1, Len(b)))

\* The bytes of an ill-formed head that one U+FFFD replaces: the lead byte
\* and the continuation bytes that still fit it.
IllFormedLen(b) ==
    IF Len(b) >= 2 /\ IsCont(b[2])
       /\ \/ /\ b[1] >= 224 /\ b[1] <= 239
             /\ (b[1] = 224 => b[2] >= 160) /\ (b[1] = 237 => b[2] <= 159)
          \/ /\ b[1] >= 240 /\ b[1] <= 244
             /\ (b[1] = 240 => b[2] >= 144) /\ (b[1] = 244 => b[2] <= 143)
    THEN (IF b[1] >= 240 /\ Len(b) >= 3 /\ IsCont(b[3]) THEN 3 ELSE 2)
    ELSE 1

\* bytes.decode("utf-8", errors="replace")
RECURSIVE DecodeReplace(_)
DecodeReplace(b) ==
    IF b = <<>> THEN <<>>
    ELSE IF Utf8SeqLen(b) > 0
    THEN <<CodePoint(b, Utf8SeqLen(b))>>
           \o DecodeReplace(SubSeq(b, Utf8SeqLen(b) + 1, Len(b)))
    ELSE <<65533>> \o DecodeReplace(SubSeq(b, IllFormedLen(b) + 1, Len(b)))

\* The ASCII code of the base64 digit i.
B64Char(i) ==
    IF i < 26 THEN 65 + i
    ELSE IF i < 52 THEN 97 + (i - 26)
    ELSE IF i < 62 THEN 48 + (i - 52)
    ELSE IF i = 62 THEN 43 ELSE 47

\* base64.b64encode(b).decode("utf-8"): the code points of the base64 text.
RECURSIVE B64Encode(_)
B64Encode(b) ==
    IF b = <<>> THEN <<>>
    ELSE IF Len(b) = 1
    THEN <<B64Char(b[1] \div 4), B64Char((b[1] % 4) * 16), 61, 61>>
    ELSE IF Len(b) = 2
    THEN <<B64Char(b[1] \div 4), B64Char((b[1] % 4) * 16 + b[2] \div 16),
           B64Char((b[2] % 16) * 4), 61>>
    ELSE <<B64Char(b[1] \div 4), B64Char((b[1] % 4) * 16 + b[2] \div 16),
           B64Char((b[2] % 16) * 4 + b[3] \div 64), B64Char(b[3] % 64)>>
           \o B64Encode(SubSeq(b, 4, Len(b)))
(***************************************************************************)
(* SpecPush: one run of push_to_github.py (script "A") or of               *)
(* push_to_github_v2.py (script "B"), and a re-run of the latter           *)
(***************************************************************************)
Branches == {"main", "master"}

\* The remote's branches before the run: each of main and master exists
\* (with its own tip) or does not.
\* The remote's history before the run: commit c1 and its child c2.  Each of
\* main and master is absent or points at one of them.
BranchStates == [Branches -> {None, "c1", "c2"}]

ParentsBefore(c) == IF c = "c2" THEN {"c1"} ELSE {}

\* The remote accepts a ref update without force only as a fast-forward: the
\* new commit must descend from the ref's current tip.
FastForward(tip, commit) ==
    \E p \in { commit.parents[i] : i \in 1..Len(commit.parents) } :
        p = tip \/ tip \in ParentsBefore(p)

NoBranches == [b \in Branches |-> None]
NoTree == [base |-> None, elements |-> EmptyMap]
NewCommit == "new_commit"

\* main_branch.commit.commit.tree
TreeOf(commit) == IF commit = "c1" THEN "t1" ELSE "t2"

\* The files on the remote's branch main before the first run of script B.
RemoteInits == { EmptyMap, [k \in {<<"a">>} |-> <<66>>] }

\* Every mapping collect_files() can return over the directories of the
\* bounds.  Files under a pruned directory are never visited, so the trees
\* without them give every result.
WalkableTrees == { t \in Trees : \A f \in DOMAIN t : Walked(f) }

CollectResults ==
    UNION { { CollectFiles(t, gi, s, o) : o \in WalkOrders(WalkedFiles(t, gi)) } :
              t \in WalkableTrees, gi \in Gitignores, s \in Seps }

\* str(e) of the GithubExceptions the remote answers with: "<status> <data>".
E409 == <<"4", "0", "9", " ", "C", "o", "n", "f", "l", "i", "c", "t">>
E422Sha == <<"4", "2", "2", " ", "s", "h", "a", " ", "n", "o", "t", " ",
             "s", "u", "p", "p", "l", "i", "e", "d">>
E422Exists == <<"4", "2", "2", " ", "A", "l", "r", "e", "a", "d", "y", " ",
                "E", "x", "i", "s", "t", "s">>
E500 == <<"5", "0", "0", " ", "S", "e", "r", "v", "e", "r", " ",
          "E", "r", "r", "o", "r">>

\* What the remote answers to a create-file request (no sha given) for a path
\* that is already on the branch, and to a request it cannot serve.
ConflictTexts == {E409, E422Sha, E422Exists}
FaultTexts == {E500}

\* str.lower() on the letters the texts use
LowerChar(c) ==
    CASE c = "A" -> "a" [] c = "C" -> "c" [] c = "E" -> "e" [] c = "S" -> "s"
      [] OTHER -> c

Lower(s) == [i \in 1..Len(s) |-> LowerChar(s[i])]

\* "409" in str(e) or "exists" in str(e).lower()
AlreadyExists(text) ==
    \/ IsSubstring(<<"4", "0", "9">>, text)
    \/ IsSubstring(<<"e", "x", "i", "s", "t", "s">>, Lower(text))

\* sorted(files.items()): the paths in ascending order (keys are distinct)
RECURSIVE SortedPaths(_)
SortedPaths(S) ==
    IF S = {} THEN <<>>
    ELSE LET m == CHOOSE k \in S : \A o \in S \ {k} : StrLess(k, o)
         IN  <<m>> \o SortedPaths(S \ {m})

\* tree_elements: one InputGitTreeElement per collected file
TreeElements(fs) ==
    [p \in DOMAIN fs |->
        [path |-> p, mode |-> "100644", type |-> "blob",
         content |-> DecodeReplace(fs[p])]]

NoFilesNever(fs) == FALSE

\* not files
NoFiles(fs) == fs = EmptyMap

ParentCommitInverted(bt, mb) == IF bt = None THEN <<mb.commit>> ELSE <<>>

\* parent_commit = [main_branch.commit] if base_tree is not None else []
ParentCommit(bt, mb) == IF bt # None THEN <<mb.commit>> ELSE <<>>

\* file_content, encoding of one iteration of script B's loop
FileContent(content) ==
    IF ValidUtf8(content)
    THEN [file_content |-> Utf8Decode(content), encoding |-> None]
    ELSE [file_content |-> B64Encode(content), encoding |-> "base64"]

\* The keyword arguments of repo.create_file(...)
CreateFileRequest(path, content) ==
    [path |-> path, message |-> "commit_msg",
     content |-> FileContent(content).file_content, branch |-> "main"]

InitPush ==
    /\ script \in {"A", "B"}
    /\ pc = "start"
    /\ exitStatus = None
    /\ output = <<>>
    /\ writeCalls = <<>>
    /\ failed = <<>>
    /\ branchTip \in (IF script = "A" THEN BranchStates ELSE {NoBranches})
    /\ branchTip0 = branchTip
    /\ main_branch = NoBranch
    /\ base_tree = None
    /\ tree_sha = NoTree
    /\ commits = <<>>
    /\ remoteFiles \in (IF script = "B" THEN RemoteInits ELSE {EmptyMap})
    /\ remoteAtRun = remoteFiles
    /\ run = 1
    /\ pos = 0
    /\ attempts = <<>>
    /\ firstRun = {}
    /\ files = EmptyMap
    /\ IdleCollect
    /\ IdleVision

\* sys.exit(1) after printing msg
Exit1(msg) ==
    /\ pc' = "exited"
    /\ exitStatus' = 1
    /\ output' = Append(output, msg)

\* An exception no handler catches: the traceback, then exit status 1.
Crash ==
    /\ pc' = "crashed"
    /\ exitStatus' = 1
    /\ output' = Append(output, "Traceback")

\* The end of main(): the success lines, then exit status 0.
Finish(line) ==
    /\ pc' = "done"
    /\ exitStatus' = 0
    /\ output' = output \o <<line, "SUCCESS! Repo pushed.">>

Goto(next) == pc' = next /\ UNCHANGED <<exitStatus, output>>

\* token = os.getenv("GITHUB_TOKEN"); script A then calls get_repo_url(),
\* whose fixed URL always splits into owner and repository.
GetToken ==
    /\ pc = "start"
    /\ \E token \in {None, "", "ghp_token"} :
          IF token \in {None, ""}
          THEN Exit1("ERROR: GITHUB_TOKEN env var not set.")
          ELSE Goto("auth")
    /\ UNCHANGED <<files, script, writeCalls, failed, branchTip, branchTip0,
                   main_branch, base_tree, tree_sha, commits, remoteFiles,
                   remoteAtRun, run, pos, attempts, firstRun>>
    /\ UNCHANGED varsC
    /\ UNCHANGED varsV

\* g = Github(token); user = g.get_user()
Authenticate ==
    /\ pc = "auth"
    /\ \/ Goto("get_repo")
       \/ Exit1("ERROR: Authentication failed")
       \/ Crash
    /\ UNCHANGED <<files, script, writeCalls, failed, branchTip, branchTip0,
                   main_branch, base_tree, tree_sha, commits, remoteFiles,
                   remoteAtRun, run, pos, attempts, firstRun>>
    /\ UNCHANGED varsC
    /\ UNCHANGED varsV

\* repo = user.get_repo(repo_name)
GetRepo ==
    /\ pc = "get_repo"
    /\ \/ Goto("collect")
       \/ Exit1("ERROR: Repo not found")
       \/ Crash
    /\ UNCHANGED <<files, script, writeCalls, failed, branchTip, branchTip0,
                   main_branch, base_tree, tree_sha, commits, remoteFiles,
                   remoteAtRun, run, pos, attempts, firstRun>>
    /\ UNCHANGED varsC
    /\ UNCHANGED varsV

\* print("Collecting files..."); files = collect_files().  A re-run walks
\* the same unchanged directory and collects the same mapping.
CollectStep ==
    /\ pc = "collect"
    /\ IF run = 1 THEN files' \in CollectResults ELSE files' = files
    /\ pc' = "check_files"
    /\ output' = Append(output, "Collecting files...")
    /\ UNCHANGED <<script, exitStatus, writeCalls, failed, branchTip,
                   branchTip0, main_branch, base_tree, tree_sha, commits,
                   remoteFiles, remoteAtRun, run, pos, attempts, firstRun>>
    /\ UNCHANGED varsC
    /\ UNCHANGED varsV

\* if not files: print("ERROR: No files to commit."); sys.exit(1)
CheckFiles ==
    /\ pc = "check_files"
    /\ IF NoFiles(files)
       THEN Exit1("ERROR: No files to commit.")
       ELSE Goto(IF script = "A" THEN "get_main" ELSE "loop")
    /\ UNCHANGED <<files, script, writeCalls, failed, branchTip, branchTip0,
                   main_branch, base_tree, tree_sha, commits, remoteFiles,
                   remoteAtRun, run, pos, attempts, firstRun>>
    /\ UNCHANGED varsC
    /\ UNCHANGED varsV
(***************************************************************************)
(* Strategy A: push_to_github.py main(), lines 117-181                     *)
(***************************************************************************)
\* try: main_branch = repo.get_branch("main"); base_tree = ...
\* except GithubException: (try master)
GetBranchMain ==
    /\ pc = "get_main"
    /\ \/ /\ branchTip["main"] # None
          /\ main_branch' = [name |-> "main", commit |-> branchTip["main"]]
          /\ base_tree' = TreeOf(branchTip["main"])
          /\ Goto("create_tree")
          /\ UNCHANGED failed
       \/ /\ Goto("get_master")
          /\ failed' = IF branchTip["main"] # None
                       THEN Append(failed, "get_branch main") ELSE failed
          /\ UNCHANGED <<main_branch, base_tree>>
       \/ /\ Crash
          /\ failed' = Append(failed, "get_branch main")
          /\ UNCHANGED <<main_branch, base_tree>>
    /\ UNCHANGED <<files, script, writeCalls, branchTip, branchTip0, tree_sha,
                   commits, remoteFiles, remoteAtRun, run, pos, attempts,
                   firstRun>>
    /\ UNCHANGED varsC
    /\ UNCHANGED varsV

\* try: main_branch = repo.get_branch("master"); base_tree = ...
\* except GithubException: base_tree = None
GetBranchMaster ==
    /\ pc = "get_master"
    /\ \/ /\ branchTip["master"] # None
          /\ main_branch' = [name |-> "master", commit |-> branchTip["master"]]
          /\ base_tree' = TreeOf(branchTip["master"])
          /\ Goto("create_tree")
          /\ UNCHANGED failed
       \/ /\ Goto("create_tree")
          /\ base_tree' = None
          /\ failed' = IF branchTip["master"] # None
                       THEN Append(failed, "get_branch master") ELSE failed
          /\ UNCHANGED main_branch
       \/ /\ Crash
          /\ failed' = Append(failed, "get_branch master")
          /\ UNCHANGED <<main_branch, base_tree>>
    /\ UNCHANGED <<files, script, writeCalls, branchTip, branchTip0, tree_sha,
                   commits, remoteFiles, remoteAtRun, run, pos, attempts,
                   firstRun>>
    /\ UNCHANGED varsC
    /\ UNCHANGED varsV

\* tree = repo.create_git_tree(tree_elements[, base_tree=base_tree]); no
\* handler: any exception ends the run.
CreateTree ==
    /\ pc = "create_tree"
    /\ writeCalls' = Append(writeCalls, "create_git_tree")
    /\ \/ /\ tree_sha' = [base |-> base_tree, elements |-> TreeElements(files)]
          /\ Goto("create_commit")
          /\ UNCHANGED failed
       \/ /\ Crash
          /\ failed' = Append(failed, "create_git_tree")
          /\ UNCHANGED tree_sha
    /\ UNCHANGED <<files, script, branchTip, branchTip0, main_branch,
                   base_tree, commits, remoteFiles, remoteAtRun, run, pos,
                   attempts, firstRun>>
    /\ UNCHANGED varsC
    /\ UNCHANGED varsV

\* commit = repo.create_git_commit(message, tree, parents=parent_commit); no
\* handler: any exception ends the run.
CreateCommit ==
    /\ pc = "create_commit"
    /\ writeCalls' = Append(writeCalls, "create_git_commit")
    /\ \/ /\ commits' = Append(commits,
                 [sha |-> NewCommit, tree |-> tree_sha,
                  parents |-> ParentCommit(base_tree, main_branch)])
          /\ Goto("ref_main")
          /\ UNCHANGED failed
       \/ /\ Crash
          /\ failed' = Append(failed, "create_git_commit")
          /\ UNCHANGED commits
    /\ UNCHANGED <<files, script, branchTip, branchTip0, main_branch,
                   base_tree, tree_sha, remoteFiles, remoteAtRun, run, pos,
                   attempts, firstRun>>
    /\ UNCHANGED varsC
    /\ UNCHANGED varsV

\* try: repo.get_git_ref("heads/main").edit(commit.sha)
\* except GithubException: (try heads/master)
\* The lookup of a ref that does not exist raises GithubException (404);
\* the edit of one that exists is accepted if it is a fast-forward, or
\* refused with a GithubException (not a fast-forward, a protected branch, a
\* server error), or raises something else.
UpdateMain ==
    /\ pc = "ref_main"
    /\ \/ /\ branchTip["main"] = None
          /\ Goto("ref_master")
          /\ UNCHANGED <<writeCalls, failed, branchTip>>
       \/ /\ branchTip["main"] # None
          /\ writeCalls' = Append(writeCalls, "edit heads/main")
          /\ \/ /\ FastForward(branchTip["main"], commits[1])
                /\ branchTip' = [branchTip EXCEPT !["main"] = commits[1].sha]
                /\ Finish("Updated main branch to latest commit")
                /\ UNCHANGED failed
             \/ /\ Goto("ref_master")
                /\ failed' = Append(failed, "edit heads/main")
                /\ UNCHANGED branchTip
             \/ /\ Crash
                /\ failed' = Append(failed, "edit heads/main")
                /\ UNCHANGED branchTip
    /\ UNCHANGED <<files, script, branchTip0, main_branch, base_tree, tree_sha,
                   commits, remoteFiles, remoteAtRun, run, pos, attempts,
                   firstRun>>
    /\ UNCHANGED varsC
    /\ UNCHANGED varsV

\* try: repo.get_git_ref("heads/master").edit(commit.sha)
\* except GithubException: (create refs/heads/main)
UpdateMaster ==
    /\ pc = "ref_master"
    /\ \/ /\ branchTip["master"] = None
          /\ Goto("ref_create")
          /\ UNCHANGED <<writeCalls, failed, branchTip>>
       \/ /\ branchTip["master"] # None
          /\ writeCalls' = Append(writeCalls, "edit heads/master")
          /\ \/ /\ FastForward(branchTip["master"], commits[1])
                /\ branchTip' = [branchTip EXCEPT !["master"] = commits[1].sha]
                /\ Finish("Updated master branch to latest commit")
                /\ UNCHANGED failed
             \/ /\ Goto("ref_create")
                /\ failed' = Append(failed, "edit heads/master")
                /\ UNCHANGED branchTip
             \/ /\ Crash
                /\ failed' = Append(failed, "edit heads/master")
                /\ UNCHANGED branchTip
    /\ UNCHANGED <<files, script, branchTip0, main_branch, base_tree, tree_sha,
                   commits, remoteFiles, remoteAtRun, run, pos, attempts,
                   firstRun>>
    /\ UNCHANGED varsC
    /\ UNCHANGED varsV

\* repo.create_git_ref(ref="refs/heads/main", sha=commit.sha); no handler.
\* The remote creates the ref only if it does not exist yet.
CreateRef ==
    /\ pc = "ref_create"
    /\ writeCalls' = Append(writeCalls, "create_git_ref")
    /\ \/ /\ branchTip["main"] = None
          /\ branchTip' = [branchTip EXCEPT !["main"] = commits[1].sha]
          /\ Finish("Created main branch with new commit")
          /\ UNCHANGED failed
       \/ /\ Crash
          /\ failed' = Append(failed, "create_git_ref")
          /\ UNCHANGED branchTip
    /\ UNCHANGED <<files, script, branchTip0, main_branch, base_tree, tree_sha,
                   commits, remoteFiles, remoteAtRun, run, pos, attempts,
                   firstRun>>
    /\ UNCHANGED varsC
    /\ UNCHANGED varsV

(***************************************************************************)
(* Strategy B: push_to_github_v2.py main(), lines 97-124                   *)
(***************************************************************************)
\* One attempt of the loop: what was sent, how the remote answered ("created",
\* "conflict", "fault", or "raised" for an exception that is no
\* GithubException), and the line printed.
Attempt(path, content, answer, text, report) ==
    [request |-> CreateFileRequest(path, content),
     encoding |-> FileContent(content).encoding,
     answer |-> answer, text |-> text, report |-> report]

\* except GithubException as e: "already exists" or the error line
Report(text) == IF AlreadyExists(text) THEN "exists" ELSE "failed"

\* After the last file the loop ends and main() prints its success lines.
LoopNext ==
    IF pos + 1 = Cardinality(DOMAIN files)
    THEN /\ pc' = "done"
         /\ exitStatus' = 0
         /\ output' = Append(output, "SUCCESS! Repo pushed.")
    ELSE Goto("loop")

\* One iteration of: for filepath, content in sorted(files.items())
CreateFile ==
    /\ pc = "loop"
    /\ pos < Cardinality(DOMAIN files)
    /\ LET path == SortedPaths(DOMAIN files)[pos + 1]
           content == files[path]
           req == CreateFileRequest(path, content)
       IN  /\ writeCalls' = Append(writeCalls, "create_file")
           /\ \/ \* the remote creates the file
                 /\ path \notin DOMAIN remoteFiles
                 /\ remoteFiles' = Store(remoteFiles, path, req.content)
                 /\ attempts' = Append(attempts,
                        Attempt(path, content, "created", <<>>, "created"))
                 /\ pos' = pos + 1
                 /\ LoopNext
              \/ \* the path is taken: GithubException
                 /\ path \in DOMAIN remoteFiles
                 /\ \E text \in ConflictTexts :
                       attempts' = Append(attempts,
                          Attempt(path, content, "conflict", text, Report(text)))
                 /\ pos' = pos + 1
                 /\ LoopNext
                 /\ UNCHANGED remoteFiles
              \/ \* the remote cannot serve the request: GithubException
                 /\ \E text \in FaultTexts :
                       attempts' = Append(attempts,
                          Attempt(path, content, "fault", text, Report(text)))
                 /\ pos' = pos + 1
                 /\ LoopNext
                 /\ UNCHANGED remoteFiles
              \/ \* an exception that is no GithubException: no handler
                 /\ attempts' = Append(attempts,
                        Attempt(path, content, "raised", <<>>, "none"))
                 /\ Crash
                 /\ UNCHANGED <<pos, remoteFiles>>
    /\ UNCHANGED <<files, script, failed, branchTip, branchTip0, main_branch,
                   base_tree, tree_sha, commits, remoteAtRun, run, firstRun>>
    /\ UNCHANGED varsC
    /\ UNCHANGED varsV

\* After a first run that created every file, the script is run once more
\* over the unchanged directory, against the remote as that run left it.
Rerun ==
    /\ script = "B"
    /\ pc = "done"
    /\ run = 1
    /\ \A i \in 1..Len(attempts) : attempts[i].report = "created"
    /\ run' = 2
    /\ firstRun' = { attempts[i].report : i \in 1..Len(attempts) }
    /\ remoteAtRun' = remoteFiles
    /\ pc' = "start"
    /\ exitStatus' = None
    /\ output' = <<>>
    /\ writeCalls' = <<>>
    /\ pos' = 0
    /\ attempts' = <<>>
    /\ UNCHANGED <<files, script, failed, branchTip, branchTip0, main_branch,
                   base_tree, tree_sha, commits, remoteFiles>>
    /\ UNCHANGED varsC
    /\ UNCHANGED varsV

NextPush ==
    \/ GetToken
    \/ Authenticate
    \/ GetRepo
    \/ CollectStep
    \/ CheckFiles
    \/ GetBranchMain
    \/ GetBranchMaster
    \/ CreateTree
    \/ CreateCommit
    \/ UpdateMain
    \/ UpdateMaster
    \/ CreateRef
    \/ CreateFile
    \/ Rerun

SpecPush == InitPush /\ [][NextPush]_vars
(***************************************************************************)
(* Claims about the push scripts                                           *)
(***************************************************************************)
Printed(line) == \E i \in 1..Len(output) : output[i] = line

\* The calls of Strategy A that write to the remote.
WriteStepCalls ==
    {"create_git_tree", "create_git_commit", "edit heads/main",
     "edit heads/master", "create_git_ref"}

\* C3: Strategy B never aborts early: once its loop has begun, the run ends
\* at the end of main() with one create-file attempt and one reported outcome
\* per collected file, in sorted-by-path order, however a create_file call
\* fails.
C3_AllFilesAttempted ==
    ( /\ script = "B"
      /\ pc \in {"done", "crashed"}
      /\ Printed("Collecting files...")
      /\ files # EmptyMap )
    => /\ pc = "done"
       /\ [i \in 1..Len(attempts) |-> attempts[i].request.path]
             = SortedPaths(DOMAIN files)
       /\ \A i \in 1..Len(attempts) :
             attempts[i].report \in {"created", "exists", "failed"}

\* C4: a run of Strategy A creates at most one commit, and exactly one once
\* the commit step is behind it; the commit's parents are exactly the tip of
\* the branch get_branch resolved (main, else master), and none when no
\* branch was resolved, in particular when neither exists.  When no
\* get_branch call failed on an existing branch, the resolved branch is main
\* if it exists, else master if it exists.
C4_OneCommitParentIsResolvedTip ==
    script = "A" =>
       /\ Len(commits) <= 1
       /\ pc \in {"ref_main", "ref_master", "ref_create", "done"}
             => Len(commits) = 1
       /\ Len(commits) = 1 =>
             /\ main_branch.name \in Branches
                   => commits[1].parents = <<branchTip0[main_branch.name]>>
             /\ main_branch.name = None => commits[1].parents = <<>>
             /\ (branchTip0["main"] = None /\ branchTip0["master"] = None)
                   => commits[1].parents = <<>>
             /\ (\A i \in 1..Len(failed) :
                     failed[i] \notin {"get_branch main", "get_branch master"})
                   => main_branch.name =
                         IF branchTip0["main"] # None THEN "main"
                         ELSE IF branchTip0["master"] # None THEN "master"
                         ELSE None

\* A run that resolved master (main is absent) and committed on its tip.
C4_Witness ==
    /\ script = "A"
    /\ pc = "done"
    /\ Len(commits) = 1
    /\ main_branch.name = "master"
    /\ branchTip0["main"] = None
    /\ commits[1].parents = <<branchTip0["master"]>>

\* C5: in Strategy A a failure of tree creation, commit creation or the ref
\* update/creation aborts the run (no run with such a failure reaches the end
\* of main()), and an aborted run has changed or created no branch ref.
C5_FailureAbortsAndLeavesRefs ==
    script = "A" =>
       /\ pc = "done" =>
             \A i \in 1..Len(failed) : failed[i] \notin WriteStepCalls
       /\ pc = "crashed" => branchTip = branchTip0

\* C6: after a first run of Strategy B that created every file, a re-run over
\* the same files, every request of which the remote answers from its state
\* (the path is taken), reports every file as already existing and leaves the
\* remote's files as they were.
C6_RerunAllAlreadyExist ==
    ( /\ script = "B"
      /\ run = 2
      /\ pc = "done"
      /\ firstRun = {"created"}
      /\ \A i \in 1..Len(attempts) : attempts[i].answer = "conflict" )
    => /\ \A i \in 1..Len(attempts) : attempts[i].report = "exists"
       /\ remoteFiles = remoteAtRun

\* C7: every create-file request of Strategy B for a file that is not valid
\* UTF-8 carries the base64 text of its bytes and is marked as
\* base64-encoded; a request for a valid UTF-8 file carries the decoded text
\* and no mark.
C7_BinaryIsBase64AndMarked ==
    script = "B" =>
       \A i \in 1..Len(attempts) :
          LET req == attempts[i].request
              bytes == files[req.path]
          IN  IF ValidUtf8(bytes)
              THEN /\ req.content = Utf8Decode(bytes)
                   /\ "encoding" \notin DOMAIN req
              ELSE /\ req.content = B64Encode(bytes)
                   /\ "encoding" \in DOMAIN req
                   /\ req.encoding = "base64"

\* C8: in both scripts, once collection has returned an empty mapping no
\* remote write endpoint is ever called, and the run ends there: it prints
\* that there are no files to commit and exits with status 1.
C8_EmptyMappingExitsWithoutWrite ==
    (Printed("Collecting files...") /\ files = EmptyMap)
    => /\ writeCalls = <<>>
       /\ pc \in {"check_files", "exited"}
       /\ pc = "exited" =>
             /\ exitStatus = 1
             /\ output[Len(output)] = "ERROR: No files to commit."

\* A run of Strategy A that collected nothing and has exited.
C8_Witness ==
    /\ script = "A"
    /\ Printed("Collecting files...")
    /\ files = EmptyMap
    /\ pc = "exited"
    /\ exitStatus = 1

\* C9: a run of Strategy A that completes the ref step has changed or
\* created exactly one branch ref, the one it resolved its base tree and
\* parent from (a newly created main only if it resolved none); master is
\* never moved to a commit whose parent is the tip of main.  Stated for the
\* runs whose get_branch calls were answered from the remote's branches.
C9_OnlyResolvedBranchMoves ==
    ( /\ script = "A"
      /\ pc = "done"
      /\ \A i \in 1..Len(failed) :
            failed[i] \notin {"get_branch main", "get_branch master"} )
    =>
       LET changed == { b \in Branches : branchTip[b] # branchTip0[b] }
       IN  /\ changed = { IF main_branch.name = None THEN "main"
                          ELSE main_branch.name }
           /\ main_branch.name = None => branchTip0["main"] = None
           /\ ~ ( /\ "master" \in changed
                  /\ branchTip0["main"] # None
                  /\ commits[1].parents = <<branchTip0["main"]>> )
(***************************************************************************)
(* SpecVision: extract_invoice_data and the analyze loop of vision.py      *)
(*                                                                         *)
(* A response text is a sequence of lexical pieces: braces, commas, whole  *)
(* "key": value members, and prose that holds no brace.                    *)
(***************************************************************************)
Tok(t) == [t |-> t, k |-> "", v |-> ""]
Member(k, v) == [t |-> "member", k |-> k, v |-> v]
LBrace == Tok("{")
RBrace == Tok("}")
Comma == Tok(",")
Prose == Tok("prose")

ResponsePieces ==
    { LBrace, RBrace, Comma, Prose,
      Member("total_amount", "5"), Member("invoice_name", "INV-7") }

Responses == UNION { [1..n -> ResponsePieces] : n \in 0..MaxRespLen }

\* get_gemini_response(...): the response text, or an exception
GeminiOutcomes ==
    { [raises |-> TRUE, text |-> <<>>] }
      \cup { [raises |-> FALSE, text |-> r] : r \in Responses }

FileNames == {"a.png", "b.pdf"}

\* str.find(piece): the 0-based index of the first occurrence, else -1
Find(text, piece) ==
    IF \E i \in 1..Len(text) : text[i] = piece
    THEN (CHOOSE i \in 1..Len(text) :
             text[i] = piece /\ \A j \in 1..(i - 1) : text[j] # piece) - 1
    ELSE -1

\* str.rfind(piece): the 0-based index of the last occurrence, else -1
RFind(text, piece) ==
    IF \E i \in 1..Len(text) : text[i] = piece
    THEN (CHOOSE i \in 1..Len(text) :
             text[i] = piece /\ \A j \in (i + 1)..Len(text) : text[j] # piece) - 1
    ELSE -1

\* Whether json.loads(json_str) returns: "{" members separated by "," "}"
ValidJson(json_str) ==
    /\ Len(json_str) >= 2
    /\ json_str[1] = LBrace
    /\ json_str[Len(json_str)] = RBrace
    /\ LET inner == SubSeq(json_str, 2, Len(json_str) - 1)
       IN  \/ inner = <<>>
           \/ /\ Len(inner) % 2 = 1
              /\ \A i \in 1..Len(inner) :
                    IF i % 2 = 1 THEN inner[i].t = "member"
                                 ELSE inner[i] = Comma

\* json.loads(json_str) of a valid object: a repeated key keeps its last value
RECURSIVE JsonLoads(_, _)
JsonLoads(json_str, acc) ==
    IF json_str = <<>> THEN acc
    ELSE IF Head(json_str).t = "member"
    THEN JsonLoads(Tail(json_str),
                   Store(acc, Head(json_str).k, Head(json_str).v))
    ELSE JsonLoads(Tail(json_str), acc)

\* The key of line 49: the adjacent literals '"' "'invoice_name'" '"'
QuotedKey == "\"'invoice_name'\""

\* {'error': msg, 'invoice_name': invoice_name}
ErrorDict(msg, invoice_name) ==
    [k \in {"error", "invoice_name"} |->
        IF k = "error" THEN msg ELSE invoice_name]

\* extract_invoice_data(image_data, invoice_name), given what
\* get_gemini_response does
ExtractInvoiceData(outcome, invoice_name) ==
    IF outcome.raises THEN ErrorDict("str(e)", invoice_name)
    ELSE LET response_text == outcome.text
             json_start == Find(response_text, LBrace)
             json_end == RFind(response_text, RBrace) + 1
         IN  IF json_start >= 0 /\ json_end > json_start
             THEN LET json_str == SubSeq(response_text, json_start + 1, json_end)
                  IN  IF ValidJson(json_str)
                      THEN Store(JsonLoads(json_str, EmptyMap),
                                 QuotedKey, invoice_name)
                      ELSE ErrorDict("JSONDecodeError", invoice_name)
             ELSE ErrorDict("Could not parse", invoice_name)

InitVision ==
    /\ uploaded_files \in UNION { [1..n -> FileNames] : n \in 1..MaxUploads }
    /\ idx = 0
    /\ all_data = <<>>
    /\ files = EmptyMap
    /\ IdleCollect
    /\ IdlePush

\* One iteration of: for idx, file in enumerate(uploaded_files).
\* input_image_setup(file) returns for an uploaded file, and
\* extract_invoice_data's value is appended.
AnalyzeFile ==
    /\ idx < Len(uploaded_files)
    /\ \E outcome \in GeminiOutcomes :
          all_data' = Append(all_data,
              ExtractInvoiceData(outcome, uploaded_files[idx + 1]))
    /\ idx' = idx + 1
    /\ UNCHANGED <<uploaded_files, files>>
    /\ UNCHANGED varsC
    /\ UNCHANGED varsP

NextVision == AnalyzeFile

SpecVision == InitVision /\ [][NextVision]_vars

\* C10: whatever the model call does, extract_invoice_data returns a mapping
\* whose key 'invoice_name' is bound to the invoice_name argument.
C10_InvoiceNameBound ==
    \A i \in 1..Len(all_data) :
        /\ "invoice_name" \in DOMAIN all_data[i]
        /\ all_data[i]["invoice_name"] = uploaded_files[i]

=============================================================================
